---- MODULE Spec2Model ----
(***************************************************************************)
(* LifeOS 0-21 frontend: the DailyChecklist component                      *)
(* (frontend/app/components/DailyChecklist.tsx) and the API client it      *)
(* calls (frontend/app/services/api.ts).                                   *)
(*                                                                         *)
(* The component runs on one event loop: every action below is one         *)
(* uninterrupted run of a handler or of an async continuation, from one    *)
(* await to the next.  The backend is the environment: it answers each     *)
(* request with a status, or the transport fails.  Event handlers are      *)
(* those of the latest committed render, so a handler reads the current    *)
(* state.                                                                  *)
(***************************************************************************)
EXTENDS Integers, Sequences, FiniteSets, TLC

(***************************************************************************)
(* Bounds of the model.                                                    *)
(***************************************************************************)
MaxToggles == 2     \* checkbox clicks
MaxLoads   == 2     \* runs of the plan-load effect (mount + childId changes)
MaxSubmits == 2     \* clicks on "Save Daily Check-in"
MaxPlanLen == 40    \* longest plan drawn for the percentage function

(***************************************************************************)
(* Program constants.                                                      *)
(***************************************************************************)
DemoIdFloor  == 1000   \* taskId >= 1000: demo row
InitialJoy   == 3      \* useState(3)
JoyMin       == 1      \* <input type="range" min={1}
JoyMax       == 5      \*                      max={5}
MantBits     == 53     \* significand of an IEEE-754 double (JS number)

Null == "null"

ErrDemo    == "Live backend unavailable. Showing demo data for executive preview."
ErrToggle  == "Could not update task status. Please try again."
ErrPlan    == "Failed to fetch daily plan"
ErrSave    == "Failed to save joy score and parent notes"
ErrNetwork == "TypeError: fetch failed"
MsgDemo    == "Demo check-in saved locally. Connect backend to persist."
MsgSaved   == "Saved joy score and notes successfully."

(***************************************************************************)
(* Tasks (DailyTask): the fields the component reads or writes.            *)
(* completion_timestamp stands for the server-computed fields.             *)
(***************************************************************************)
Task(id, done, ts) == [id |-> id, completed |-> done, completion_timestamp |-> ts]

NoTask == Task(0, FALSE, Null)

DEMO_TASKS ==
  << Task(1001, TRUE, Null), Task(1002, FALSE, Null), Task(1003, FALSE, Null),
     Task(1004, TRUE, Null), Task(1005, FALSE, Null) >>

Children == {1, 2}

\* What the user enters in the model: a joy score of the slider's range, a note.
JoyScores == {InitialJoy, 4}

Notes == {"", "great day"}

Statuses == {"200", "404", "500"}

(***************************************************************************)
(* JS numbers.  (done / tasks.length) * 100 is computed in IEEE-754        *)
(* doubles: the quotient is rounded to 53 significant bits (to nearest,    *)
(* ties to even), the product by 100 is rounded again, and Math.round      *)
(* takes the result to the nearest integer, a half going up.  A double is  *)
(* [m, e]: m the significand's bits, least significant first, and the      *)
(* value is m * 2^e.                                                       *)
(***************************************************************************)
Zeros(k) == [i \in 1..k |-> 0]

AnyOne(s) == \E i \in 1..Len(s) : s[i] = 1

RECURSIVE Incr(_)
Incr(m) ==
  IF m = <<>> THEN <<1>>
  ELSE IF Head(m) = 0 THEN <<1>> \o Tail(m)
       ELSE <<0>> \o Incr(Tail(m))

\* The significand rounded up by one unit in the last place (a carry out of
\* the top bit drops the lowest bit, which is then 0).
RoundUp(m, e, up) ==
  IF ~up THEN [m |-> m, e |-> e]
  ELSE LET n == Incr(m)
       IN  IF Len(n) > Len(m) THEN [m |-> SubSeq(n, 2, Len(n)), e |-> e + 1]
           ELSE [m |-> n, e |-> e]

RECURSIVE LeadingZeros(_, _)
LeadingZeros(r, n) == IF 2 * r >= n THEN 0 ELSE 1 + LeadingZeros(2 * r, n)

RECURSIVE ShiftRem(_, _, _)
ShiftRem(r, n, z) == IF z = 0 THEN r ELSE ShiftRem(2 * r, n, z - 1)

\* k more bits of the binary expansion of r / n (0 <= r < n), by long division.
RECURSIVE TakeBits(_, _, _, _)
TakeBits(r, n, k, acc) ==
  IF k = 0 THEN [bits |-> acc, rem |-> r]
  ELSE IF 2 * r >= n THEN TakeBits(2 * r - n, n, k - 1, <<1>> \o acc)
       ELSE TakeBits(2 * r, n, k - 1, <<0>> \o acc)

\* The double nearest to d / n, for 0 <= d <= n and n > 0.
Fdiv(d, n) ==
  IF d = 0 THEN [m |-> Zeros(MantBits), e |-> 1 - MantBits]
  ELSE IF d = n
  THEN [m |-> [i \in 1..MantBits |-> IF i = MantBits THEN 1 ELSE 0], e |-> 1 - MantBits]
  ELSE LET z  == LeadingZeros(d, n)
           q  == TakeBits(ShiftRem(d, n, z), n, MantBits, <<>>)
           up == 2 * q.rem > n \/ (2 * q.rem = n /\ Head(q.bits) = 1)
       IN  RoundUp(q.bits, 0 - (z + MantBits), up)

RECURSIVE AddBits(_, _, _)
AddBits(a, b, c) ==
  IF a = <<>> /\ b = <<>> THEN (IF c = 1 THEN <<1>> ELSE <<>>)
  ELSE LET x == IF a = <<>> THEN 0 ELSE Head(a)
           y == IF b = <<>> THEN 0 ELSE Head(b)
           s == x + y + c
       IN  <<s % 2>> \o AddBits(IF a = <<>> THEN a ELSE Tail(a),
                                IF b = <<>> THEN b ELSE Tail(b), s \div 2)

\* An exact product p * 2^e rounded to a double.
RoundToDouble(p, e) ==
  LET k == Len(p) - MantBits
  IN  IF k <= 0 THEN [m |-> p, e |-> e]
      ELSE LET kept   == SubSeq(p, k + 1, Len(p))
               half   == p[k]
               sticky == AnyOne(SubSeq(p, 1, k - 1))
               up     == half = 1 /\ (sticky \/ Head(kept) = 1)
           IN  RoundUp(kept, e + k, up)

\* The double nearest to f * 100: 100 f = 4 f + 32 f + 64 f, exactly, then rounded.
Fmul100(f) ==
  LET p == AddBits(AddBits(Zeros(2) \o f.m, Zeros(5) \o f.m, 0), Zeros(6) \o f.m, 0)
  IN  RoundToDouble(p, f.e)

RECURSIVE BitsToInt(_)
BitsToInt(s) == IF s = <<>> THEN 0 ELSE Head(s) + 2 * BitsToInt(Tail(s))

\* Math.round of a double in 0..100: its integer part, plus one when the
\* fraction is at least one half.
MathRound(f) ==
  LET h       == 0 - f.e
      int     == IF h >= Len(f.m) THEN 0 ELSE BitsToInt(SubSeq(f.m, h + 1, Len(f.m)))
      halfBit == IF h >= 1 /\ h <= Len(f.m) THEN f.m[h] ELSE 0
  IN  int + halfBit

(***************************************************************************)
(* The task collection.                                                    *)
(***************************************************************************)
Done(ts) == Cardinality({i \in 1..Len(ts) : ts[i].completed})

\* useMemo(() => ..., [tasks]): the percentage shown in the header.
completionPercentage(ts) ==
  IF Len(ts) = 0 THEN 0 ELSE MathRound(Fmul100(Fdiv(Done(ts), Len(ts))))

\* An optimistic update that also resets the completion stamp of the task.
SetCompleted_ClearStamp(ts, taskId, completed) ==
  [i \in 1..Len(ts) |->
     IF ts[i].id = taskId THEN Task(taskId, completed, Null) ELSE ts[i]]

\* current.map((task) => (task.id === taskId ? { ...task, completed } : task))
SetCompleted(ts, taskId, completed) ==
  [i \in 1..Len(ts) |->
     IF ts[i].id = taskId THEN [ts[i] EXCEPT !.completed = completed] ELSE ts[i]]

\* A confirmation that copies the flag of the answer and drops its other fields.
MergeCompleted(ts, updated) == SetCompleted(ts, updated.id, updated.completed)

\* A confirmation that adds the answer to the collection.
ReplaceTask_Append(ts, updated) == Append(ts, updated)

\* current.map((task) => (task.id === updated.id ? updated : task))
ReplaceTask(ts, updated) ==
  [i \in 1..Len(ts) |-> IF ts[i].id = updated.id THEN updated ELSE ts[i]]

\* A rollback that takes back the flag of the toggled task alone.
RevertEntry(ts, call) == SetCompleted(ts, call.taskId, ~call.completed)

\* A catch that leaves the optimistic collection in place.
KeepTasks(ts, call) == ts

\* setTasks(previous): the whole collection goes back to the call's snapshot.
RevertTasks(ts, call) == call.previous

\* A submission that never takes the collection for demo data.
DemoShown_Never(ts) == FALSE

\* tasks.some((task) => task.id >= 1000)
DemoShown(ts) == \E i \in 1..Len(ts) : ts[i].id >= DemoIdFloor

Ids(ts) == [i \in 1..Len(ts) |-> ts[i].id]

HasId(ts, id) == \E i \in 1..Len(ts) : ts[i].id = id

Entry(ts, id) == ts[CHOOSE i \in 1..Len(ts) : ts[i].id = id]

(***************************************************************************)
(* State.                                                                  *)
(***************************************************************************)
VARIABLES
  childId,      \* the childId prop
  tasks,        \* useState<DailyTask[]>([])
  loading,      \* useState(true)
  error,        \* useState<string | null>(null)
  joyScore,     \* useState(3)
  parentNotes,  \* useState('')
  saving,       \* useState(false)
  saveMessage,  \* useState<string | null>(null)
  server,       \* the backend: for each child, today's plan
  toggles,      \* onToggleTask calls suspended at await completeTask(...)
  loads,        \* runs of the load effect suspended inside fetchDailyPlan(...)
  submits,      \* onSubmit calls suspended at await saveDailyCheckin(...)
  nToggles, nLoads, nSubmits,   \* how many of each so far
  recent,       \* history: per task id, its latest server toggle and the outcome
  last          \* history: the handler that last wrote tasks, error, the save
                \* message or a flag, and the call it ran for

vars == << childId, tasks, loading, error, joyScore, parentNotes, saving,
           saveMessage, server, toggles, loads, submits,
           nToggles, nLoads, nSubmits, recent, last >>

component == << childId, tasks, loading, error, joyScore, parentNotes, saving, saveMessage >>

NoCall == [n |-> 0]

Ev(op, call) == [op |-> op, call |-> call]

ServerIds(srv) == UNION {{srv[c][i].id : i \in 1..Len(srv[c])} : c \in Children}

\* The run of the load effect for childId, at its first fetch:
\* setLoading(true); await fetchDailyPlan(childId) -> await fetch(GET).
NewLoad(n, c) ==
  [n |-> n, childId |-> c, pc |-> "get1", gets |-> 1, posts |-> 0,
   first |-> "none", profile |-> "none", second |-> "none",
   result |-> <<>>, err |-> Null]

\* The component as mounted (childId = 1 is the prop's default and what the
\* page passes), its load effect started, against a backend holding `plans`.
Mounted(plans) ==
  /\ childId = 1
  /\ tasks = <<>>
  /\ loading = TRUE
  /\ error = Null
  /\ joyScore = InitialJoy
  /\ parentNotes = ""
  /\ saving = FALSE
  /\ saveMessage = Null
  /\ server = plans
  /\ toggles = {}
  /\ loads = {NewLoad(1, 1)}
  /\ submits = {}
  /\ nToggles = 0
  /\ nLoads = 1
  /\ nSubmits = 0
  /\ recent = [id \in ServerIds(plans) |-> [n |-> 0, outcome |-> "none"]]
  /\ last = Ev("mount", NoCall)

\* A plan of n tasks, the first d of them completed.
Plan(n, d) == [i \in 1..n |-> Task(i, i <= d, IF i <= d THEN "t0" ELSE Null)]

InitialPlans ==
  [c \in Children |->
     IF c = 1
     THEN << Task(1, TRUE, "t0"), Task(2, FALSE, Null) >>
     ELSE << Task(3, FALSE, Null) >>]

Init == Mounted(InitialPlans)

(***************************************************************************)
(* The plan load: useEffect(..., [childId]) and fetchDailyPlan.  A request *)
(* that fails changes nothing at the backend, so its answer and the        *)
(* continuation it resumes are one step; a request that succeeds reads or  *)
(* writes the backend when it is served and resumes the caller later.      *)
(***************************************************************************)
\* The parent renders the component with another childId: the effect runs again.
ChangeChild(c) ==
  /\ c # childId
  /\ nLoads < MaxLoads
  /\ childId' = c
  /\ loading' = TRUE
  /\ nLoads' = nLoads + 1
  /\ loads' = loads \cup {NewLoad(nLoads + 1, c)}
  /\ last' = Ev("changeChild", NoCall)
  /\ UNCHANGED << tasks, error, joyScore, parentNotes, saving, saveMessage,
                  server, toggles, submits, nToggles, nSubmits, recent >>

FetchStep(l, l2) ==
  /\ loads' = (loads \ {l}) \cup {l2}
  /\ UNCHANGED << component, server, toggles, submits,
                  nToggles, nLoads, nSubmits, recent, last >>

\* A GET (the first, or the retry) is served with 200: response.ok, and
\* fetchDailyPlan returns response.json(), the plan as the backend holds it now.
PlanServed(l) ==
  /\ l.pc \in {"get1", "get2"}
  /\ FetchStep(l,
               [l EXCEPT !.pc = "resolved", !.result = server[l.childId],
                         !.first = IF l.pc = "get1" THEN "200" ELSE l.first,
                         !.second = IF l.pc = "get2" THEN "200" ELSE l.second])

\* A recovery that retries the GET without creating the profile.
FirstNotFound_NoProfile(l, status) ==
  /\ l.pc = "get1"
  /\ status = "404"
  /\ FetchStep(l, [l EXCEPT !.pc = "get2", !.first = status, !.gets = l.gets + 1])

\* A recovery entered on every response that is not ok.
FirstNotFound_AnyStatus(l, status) ==
  /\ l.pc = "get1"
  /\ status # "200"
  /\ FetchStep(l, [l EXCEPT !.pc = "post", !.first = status, !.posts = l.posts + 1])

\* The first GET is answered 404: ensureDefaultProfileExists() issues POST /profiles/.
FirstNotFound(l, status) ==
  /\ l.pc = "get1"
  /\ status = "404"
  /\ FetchStep(l, [l EXCEPT !.pc = "post", !.first = status, !.posts = l.posts + 1])

\* A profile creation that must succeed for the retry to be issued.
ProfileResponse_OkOnly(l, status) ==
  /\ l.pc = "post"
  /\ status = "200"
  /\ FetchStep(l, [l EXCEPT !.pc = "get2", !.profile = "answered", !.gets = l.gets + 1])

\* POST /profiles/ is answered: its status is not looked at, the retry GET is issued.
ProfileResponse(l, status) ==
  /\ l.pc = "post"
  /\ FetchStep(l, [l EXCEPT !.pc = "get2", !.profile = "answered", !.gets = l.gets + 1])

\* How fetchDailyPlan can throw from where call l stands: "net" is fetch()
\* rejecting (the transport, or a body that does not parse), which nothing in
\* fetchDailyPlan catches; a status is a response that is not ok and, on the
\* first GET, not 404 either: throw new Error('Failed to fetch daily plan').
PlanFailures(l) ==
  IF l.pc = "get1" THEN {"500", "net"}
  ELSE IF l.pc = "post" THEN {"net"}
  ELSE IF l.pc = "get2" THEN {"404", "500", "net"}
  ELSE {}

Failed(l, cause) ==
  [l EXCEPT !.pc = "rejected",
            !.err = IF cause = "net" THEN ErrNetwork ELSE ErrPlan,
            !.first = IF l.pc = "get1" THEN cause ELSE l.first,
            !.profile = IF l.pc = "post" THEN cause ELSE l.profile,
            !.second = IF l.pc = "get2" THEN cause ELSE l.second]

\* const dailyTasks = await fetchDailyPlan(childId) resumes:
\* setTasks(dailyTasks); setError(null); finally setLoading(false).
LoadResolved(l) ==
  /\ l.pc = "resolved"
  /\ tasks' = l.result
  /\ error' = Null
  /\ loading' = FALSE
  /\ loads' = loads \ {l}
  /\ last' = Ev("loadResolved", l)
  /\ UNCHANGED << childId, joyScore, parentNotes, saving, saveMessage, server,
                  toggles, submits, nToggles, nLoads, nSubmits, recent >>

\* fetchDailyPlan throws, and the effect's catch runs: setTasks(DEMO_TASKS);
\* setError('Live backend unavailable...'); finally setLoading(false).
LoadRejected(l, cause) ==
  /\ cause \in PlanFailures(l)
  /\ tasks' = DEMO_TASKS
  /\ error' = ErrDemo
  /\ loading' = FALSE
  /\ loads' = loads \ {l}
  /\ submits' = {[s EXCEPT !.dirty = TRUE] : s \in submits}
  /\ last' = Ev("loadRejected", Failed(l, cause))
  /\ UNCHANGED << childId, joyScore, parentNotes, saving, saveMessage, server,
                  toggles, nToggles, nLoads, nSubmits, recent >>

(***************************************************************************)
(* Task toggles: onToggleTask and completeTask.                            *)
(***************************************************************************)
\* The call of onToggleTask suspended at await completeTask(taskId, completed):
\* one POST /tasks/complete_task is on its way.
NewToggle(n, taskId, completed, previous) ==
  [n |-> n, taskId |-> taskId, completed |-> completed, previous |-> previous,
   pc |-> "await", posts |-> 1, updated |-> NoTask]

\* The checkbox of row i changes: onToggleTask(task.id, event.target.checked),
\* where the box showed task.completed.  Demo rows (id >= 1000) flip locally
\* and return; any other row is flipped optimistically and completeTask is called.
onToggleTask(i) ==
  /\ i \in 1..Len(tasks)
  /\ nToggles < MaxToggles
  /\ LET taskId    == tasks[i].id
         completed == ~tasks[i].completed
         previous  == tasks
         call      == NewToggle(nToggles + 1, taskId, completed, previous)
     IN  /\ tasks' = SetCompleted(tasks, taskId, completed)
         /\ nToggles' = nToggles + 1
         /\ IF taskId >= DemoIdFloor
            THEN /\ last' = Ev("toggleDemo", [call EXCEPT !.pc = "demo", !.posts = 0])
                 /\ UNCHANGED << toggles, recent >>
            ELSE /\ toggles' = toggles \cup {call}
                 /\ recent' = [recent EXCEPT ![taskId] = [n |-> call.n, outcome |-> "pending"]]
                 /\ last' = Ev("toggle", call)
  /\ UNCHANGED << childId, loading, error, joyScore, parentNotes, saving, saveMessage,
                  server, loads, submits, nLoads, nSubmits >>

\* The backend's complete_task: it records the flag and stamps the completion.
ServerComplete(srv, taskId, completed) ==
  [c \in Children |->
     [i \in 1..Len(srv[c]) |->
        IF srv[c][i].id = taskId
        THEN Task(taskId, completed, IF completed THEN "t1" ELSE Null)
        ELSE srv[c][i]]]

ServerTask(srv, taskId) ==
  LET c == CHOOSE k \in Children : HasId(srv[k], taskId) IN Entry(srv[c], taskId)

\* POST /tasks/complete_task is served: 200 with the updated Task.
CompleteTaskOk(r) ==
  /\ r.pc = "await"
  /\ server' = ServerComplete(server, r.taskId, r.completed)
  /\ toggles' = (toggles \ {r}) \cup
                  {[r EXCEPT !.pc = "resolved", !.updated = ServerTask(server', r.taskId)]}
  /\ UNCHANGED << component, loads, submits, nToggles, nLoads, nSubmits, recent, last >>

Outcome(rec, r, outcome) ==
  IF rec[r.taskId].n = r.n THEN [rec EXCEPT ![r.taskId].outcome = outcome] ELSE rec

\* const updated = await completeTask(...) resumes:
\* setTasks((current) => current.map(... updated ...)).
ToggleConfirmed(r) ==
  /\ r.pc = "resolved"
  /\ tasks' = ReplaceTask(tasks, r.updated)
  /\ toggles' = toggles \ {r}
  /\ recent' = Outcome(recent, r, "ok")
  /\ last' = Ev("toggleConfirmed", r)
  /\ UNCHANGED << childId, loading, error, joyScore, parentNotes, saving, saveMessage,
                  server, loads, submits, nToggles, nLoads, nSubmits >>

\* How completeTask can throw: a response that is not ok (throw new
\* Error('Failed to update task status')), or fetch() rejecting.
RequestFailures == {"500", "net"}

\* A completeTask that sends the request once more before it gives up.
ToggleRolledBack_Retry(r, cause) ==
  /\ r.pc = "await"
  /\ cause \in RequestFailures
  /\ IF r.posts = 1
     THEN /\ toggles' = (toggles \ {r}) \cup {[r EXCEPT !.posts = 2]}
          /\ UNCHANGED << tasks, error, submits, recent, last >>
     ELSE /\ tasks' = RevertTasks(tasks, r)
          /\ error' = ErrToggle
          /\ toggles' = toggles \ {r}
          /\ submits' = {[s EXCEPT !.dirty = TRUE] : s \in submits}
          /\ recent' = Outcome(recent, r, "failed")
          /\ last' = Ev("toggleRolledBack", [r EXCEPT !.pc = cause])
  /\ UNCHANGED << childId, loading, joyScore, parentNotes, saving, saveMessage,
                  server, loads, nToggles, nLoads, nSubmits >>

\* completeTask throws, and the catch runs: setTasks(previous);
\* setError('Could not update task status. Please try again.').
ToggleRolledBack(r, cause) ==
  /\ r.pc = "await"
  /\ cause \in RequestFailures
  /\ tasks' = RevertTasks(tasks, r)
  /\ error' = ErrToggle
  /\ toggles' = toggles \ {r}
  /\ submits' = {[s EXCEPT !.dirty = TRUE] : s \in submits}
  /\ recent' = Outcome(recent, r, "failed")
  /\ last' = Ev("toggleRolledBack", [r EXCEPT !.pc = cause])
  /\ UNCHANGED << childId, loading, joyScore, parentNotes, saving, saveMessage,
                  server, loads, nToggles, nLoads, nSubmits >>

(***************************************************************************)
(* The check-in: the two inputs, onSubmit and saveDailyCheckin.            *)
(***************************************************************************)
\* onChange of the range input: setJoyScore(Number(event.target.value)).
SetJoyScore(v) ==
  /\ v \in JoyMin..JoyMax
  /\ v # joyScore
  /\ joyScore' = v
  /\ UNCHANGED << childId, tasks, loading, error, parentNotes, saving, saveMessage,
                  server, toggles, loads, submits, nToggles, nLoads, nSubmits, recent, last >>

\* onChange of the textarea: setParentNotes(event.target.value).
SetParentNotes(txt) ==
  /\ txt # parentNotes
  /\ parentNotes' = txt
  /\ UNCHANGED << childId, tasks, loading, error, joyScore, saving, saveMessage,
                  server, toggles, loads, submits, nToggles, nLoads, nSubmits, recent, last >>

\* A payload built from the initial joy score instead of the current one.
NewSubmit_InitialJoy(n, c, joy, notes) ==
  [n |-> n, child_id |-> c, joy_score |-> InitialJoy, parent_notes |-> notes,
   pc |-> "await", posts |-> 1, dirty |-> FALSE]

\* The call of onSubmit suspended at await saveDailyCheckin(payload): one
\* POST /daily-plan/{child_id}/checkin with body { joy_score, parent_notes }.
\* dirty: a toggle or a plan load has failed since the call began.
NewSubmit(n, c, joy, notes) ==
  [n |-> n, child_id |-> c, joy_score |-> joy, parent_notes |-> notes,
   pc |-> "await", posts |-> 1, dirty |-> FALSE]

\* A submission that does not clear the error message: no setError(null).
onSubmit_KeepError ==
  /\ ~saving
  /\ nSubmits < MaxSubmits
  /\ nSubmits' = nSubmits + 1
  /\ LET call == NewSubmit(nSubmits + 1, childId, joyScore, parentNotes)
     IN  IF DemoShown(tasks)
         THEN /\ saveMessage' = MsgDemo
              /\ saving' = FALSE
              /\ last' = Ev("submitDemo", [call EXCEPT !.pc = "demo", !.posts = 0])
              /\ UNCHANGED submits
         ELSE /\ saveMessage' = Null
              /\ saving' = TRUE
              /\ submits' = submits \cup {call}
              /\ last' = Ev("submit", call)
  /\ UNCHANGED << childId, tasks, loading, error, joyScore, parentNotes, server, toggles,
                  loads, nToggles, nLoads, recent >>

\* A button that stays enabled while a submission is outstanding.
onSubmit_AlwaysEnabled ==
  /\ nSubmits < MaxSubmits
  /\ nSubmits' = nSubmits + 1
  /\ error' = Null
  /\ LET call == NewSubmit(nSubmits + 1, childId, joyScore, parentNotes)
     IN  IF DemoShown(tasks)
         THEN /\ saveMessage' = MsgDemo
              /\ saving' = FALSE
              /\ last' = Ev("submitDemo", [call EXCEPT !.pc = "demo", !.posts = 0])
              /\ UNCHANGED submits
         ELSE /\ saveMessage' = Null
              /\ saving' = TRUE
              /\ submits' = submits \cup {call}
              /\ last' = Ev("submit", call)
  /\ UNCHANGED << childId, tasks, loading, joyScore, parentNotes, server, toggles,
                  loads, nToggles, nLoads, recent >>

\* The button (disabled={saving}) is clicked: setSaving(true); setSaveMessage(null);
\* setError(null).  With a demo row shown: setSaveMessage('Demo check-in saved
\* locally...'); return, and finally setSaving(false).  Otherwise saveDailyCheckin.
onSubmit ==
  /\ ~saving
  /\ nSubmits < MaxSubmits
  /\ nSubmits' = nSubmits + 1
  /\ error' = Null
  /\ LET call == NewSubmit(nSubmits + 1, childId, joyScore, parentNotes)
     IN  IF DemoShown(tasks)
         THEN /\ saveMessage' = MsgDemo
              /\ saving' = FALSE
              /\ last' = Ev("submitDemo", [call EXCEPT !.pc = "demo", !.posts = 0])
              /\ UNCHANGED submits
         ELSE /\ saveMessage' = Null
              /\ saving' = TRUE
              /\ submits' = submits \cup {call}
              /\ last' = Ev("submit", call)
  /\ UNCHANGED << childId, tasks, loading, joyScore, parentNotes, server, toggles,
                  loads, nToggles, nLoads, recent >>

\* The POST is answered 200 (response.ok) and await saveDailyCheckin(...) resumes:
\* setSaveMessage('Saved joy score and notes successfully.'); finally setSaving(false).
SubmitResolved(s) ==
  /\ s.pc = "await"
  /\ saveMessage' = MsgSaved
  /\ saving' = FALSE
  /\ submits' = submits \ {s}
  /\ last' = Ev("submitResolved", s)
  /\ UNCHANGED << childId, tasks, loading, error, joyScore, parentNotes, server,
                  toggles, loads, nToggles, nLoads, nSubmits, recent >>

\* submitError.message: of new Error('Failed to save joy score and parent notes')
\* for a response that is not ok, of fetch's own error when it rejects.
SubmitErrorMessage(cause) == IF cause = "net" THEN ErrNetwork ELSE ErrSave

\* A catch with no finally after it: the saving flag is left as it is.
SubmitRejected_NoFinally(s, cause) ==
  /\ s.pc = "await"
  /\ cause \in RequestFailures
  /\ error' = SubmitErrorMessage(cause)
  /\ submits' = submits \ {s}
  /\ last' = Ev("submitRejected", [s EXCEPT !.pc = cause])
  /\ UNCHANGED << childId, tasks, loading, joyScore, parentNotes, saving, saveMessage,
                  server, toggles, loads, nToggles, nLoads, nSubmits, recent >>

\* saveDailyCheckin throws, and catch (submitError) runs:
\* setError(submitError.message); finally setSaving(false).
SubmitRejected(s, cause) ==
  /\ s.pc = "await"
  /\ cause \in RequestFailures
  /\ error' = SubmitErrorMessage(cause)
  /\ saving' = FALSE
  /\ submits' = submits \ {s}
  /\ last' = Ev("submitRejected", [s EXCEPT !.pc = cause])
  /\ UNCHANGED << childId, tasks, loading, joyScore, parentNotes, saveMessage, server,
                  toggles, loads, nToggles, nLoads, nSubmits, recent >>

(***************************************************************************)
(* The component and its backend.                                          *)
(***************************************************************************)
\* fetchDailyPlan between its requests, and the backend serving them.
PlanTraffic ==
  \/ \E l \in loads : PlanServed(l)
  \/ \E l \in loads, st \in Statuses : FirstNotFound(l, st)
  \/ \E l \in loads, st \in Statuses : ProfileResponse(l, st)

PlanLoad ==
  \/ PlanTraffic
  \/ \E l \in loads : LoadResolved(l)
  \/ \E l \in loads, cause \in {"404", "500", "net"} : LoadRejected(l, cause)

Toggling ==
  \/ \E i \in 1..Len(tasks) : onToggleTask(i)
  \/ \E r \in toggles : CompleteTaskOk(r)
  \/ \E r \in toggles : ToggleConfirmed(r)
  \/ \E r \in toggles, cause \in RequestFailures : ToggleRolledBack(r, cause)

Checkin ==
  \/ \E v \in JoyScores : SetJoyScore(v)
  \/ \E txt \in Notes : SetParentNotes(txt)
  \/ onSubmit
  \/ \E s \in submits : SubmitResolved(s)
  \/ \E s \in submits, cause \in RequestFailures : SubmitRejected(s, cause)

Next ==
  \/ \E c \in Children : ChangeChild(c)
  \/ PlanLoad
  \/ Toggling
  \/ Checkin

\* The whole component.
Spec == Init /\ [][Next]_vars

\* The task list: plan loads (the childId prop may change) and task toggles.
NextTasks ==
  \/ \E c \in Children : ChangeChild(c)
  \/ PlanLoad
  \/ Toggling

SpecTasks == Init /\ [][NextTasks]_vars

\* The check-in flow of a component whose childId stays what the page passes,
\* with the plan load and the toggles that share its error message.
NextCheckin ==
  \/ PlanLoad
  \/ Toggling
  \/ Checkin

SpecCheckin == Init /\ [][NextCheckin]_vars

\* The percentage shown for the plans the backend may hold: the component is
\* mounted against a plan of any length up to MaxPlanLen with any number of its
\* tasks completed, and loads it.
InitPct ==
  \E n \in 0..MaxPlanLen : \E d \in 0..n :
    Mounted([c \in Children |-> IF c = 1 THEN Plan(n, d) ELSE <<>>])

SpecPct == InitPct /\ [][PlanLoad]_vars

\* A day of a child whose plan has 5 tasks, 2 of them completed, worked through
\* one toggle at a time: the next checkbox is clicked once the previous toggle
\* has been confirmed or rolled back.
DayPlans ==
  [c \in Children |->
     IF c = 1
     THEN << Task(1, TRUE, "t0"), Task(2, FALSE, Null), Task(3, FALSE, Null),
             Task(4, TRUE, "t0"), Task(5, FALSE, Null) >>
     ELSE << >>]

InitDay == Mounted(DayPlans)

NextDay ==
  \/ PlanLoad
  \/ \E i \in 1..Len(tasks) : toggles = {} /\ onToggleTask(i)
  \/ \E r \in toggles : CompleteTaskOk(r)
  \/ \E r \in toggles : ToggleConfirmed(r)
  \/ \E r \in toggles, cause \in RequestFailures : ToggleRolledBack(r, cause)

SpecDay == InitDay /\ [][NextDay]_vars

\* The two flags: plan loads (the childId prop may change) and submissions,
\* where every request that is in flight is eventually answered or fails and
\* the continuation it resumes eventually runs.
SubmitAnswered ==
  \/ \E s \in submits : SubmitResolved(s)
  \/ \E s \in submits, cause \in RequestFailures : SubmitRejected(s, cause)

NextFlags ==
  \/ \E c \in Children : ChangeChild(c)
  \/ PlanLoad
  \/ onSubmit
  \/ SubmitAnswered

SpecFlags ==
  /\ Init
  /\ [][NextFlags]_vars
  /\ WF_vars(PlanLoad)
  /\ WF_vars(SubmitAnswered)

(***************************************************************************)
(* Properties of the task list.                                            *)
(***************************************************************************)
InFlightOn(id) == \E r \in toggles : r.taskId = id

\* C1: when a toggle's completeTask call has failed and its catch has run, the
\* task collection equals, by value, the collection as it was just before that
\* toggle was applied, whatever other toggles, confirmations and plan loads
\* came in between.
C1_RollbackRestoresSnapshot ==
  last.op = "toggleRolledBack" => tasks = last.call.previous

\* A rollback handled after a later toggle, on another task, had been confirmed.
C1_Witness ==
  /\ last.op = "toggleRolledBack"
  /\ tasks = last.call.previous
  /\ \E id \in DOMAIN recent :
       /\ id # last.call.taskId
       /\ recent[id].n > last.call.n
       /\ recent[id].outcome = "ok"

\* C2: the step that resumes a toggle after a success response replaces the
\* local entry of that task id by the Task the server returned, every field of
\* it, and leaves every other entry as it was.
C2_ConfirmAdoptsServerTask ==
  [][\A r \in toggles :
       (r.pc = "resolved" /\ r \notin toggles') =>
         /\ Len(tasks') = Len(tasks)
         /\ \A i \in 1..Len(tasks) :
              tasks'[i] = IF tasks[i].id = r.taskId THEN r.updated ELSE tasks[i]]_vars

\* A confirmed toggle whose local entry carries the server's completion stamp,
\* which the optimistic entry did not have.
C2_Witness ==
  /\ last.op = "toggleConfirmed"
  /\ HasId(tasks, last.call.taskId)
  /\ Entry(tasks, last.call.taskId) = last.call.updated
  /\ last.call.updated.completed
  /\ last.call.updated.completion_timestamp = "t1"
  /\ last.call.updated # Entry(last.call.previous, last.call.taskId)

\* C3: for every task whose most recent toggle has round-tripped successfully
\* and on which no toggle request is in flight, the local copy equals the
\* server's copy.
C3_LocalMatchesServer ==
  \A id \in DOMAIN recent :
    (recent[id].outcome = "ok" /\ ~InFlightOn(id) /\ HasId(tasks, id))
      => Entry(tasks, id) = ServerTask(server, id)

\* C4: toggles on different task ids are independent: the step that finishes a
\* toggle on one task, confirmed or rolled back, leaves the entry of every other
\* task as it was.
C4_TogglesIndependent ==
  [][\A r \in toggles :
       r \notin toggles' =>
         /\ Len(tasks') = Len(tasks)
         /\ \A i \in 1..Len(tasks) : tasks[i].id # r.taskId => tasks'[i] = tasks[i]]_vars

\* C5: toggles on one task id are serialized: at most one completeTask request
\* per task id is in flight.
C5_OneInFlightPerTask ==
  \A r1, r2 \in toggles : r1.taskId = r2.taskId => r1 = r2

(***************************************************************************)
(* Properties of fetchDailyPlan.  A call that has returned or thrown is    *)
(* the call of the load handler that ran last.                             *)
(***************************************************************************)
Finished == last.op \in {"loadResolved", "loadRejected"}

\* C6 as stated: a call whose first GET returned 404 has issued exactly one
\* POST /profiles/ and exactly one more GET, and has failed with the
\* plan-unavailable error if the second GET was answered with a status that is
\* not a success.
C6_OneProfileThenOneRetry ==
  (Finished /\ last.call.first = "404") =>
    /\ last.call.posts = 1
    /\ last.call.gets = 2
    /\ last.call.second \in {"404", "500"} =>
         (last.op = "loadRejected" /\ last.call.err = ErrPlan)

\* C6, amended: a call whose first GET returned 404 issues exactly one POST
\* /profiles/; once that POST is answered, whatever its status, it issues
\* exactly one more GET, and when the POST fails in transport it issues none and
\* fails; a second GET that is not successful fails the call (with the
\* plan-unavailable error when it was answered) without a further request.
C6_OneProfileThenAtMostOneRetry ==
  /\ \A l \in loads :
       /\ l.first = "404" => (l.posts = 1 /\ l.gets = IF l.pc = "post" THEN 1 ELSE 2)
       /\ l.gets = 2 => l.profile = "answered"
  /\ (Finished /\ last.call.first = "404") =>
       /\ last.call.posts = 1
       /\ last.call.profile = "answered" => last.call.gets = 2
       /\ last.call.profile = "net" => (last.call.gets = 1 /\ last.op = "loadRejected")
       /\ last.call.second \in {"404", "500"} =>
            (last.op = "loadRejected" /\ last.call.err = ErrPlan)
       /\ last.call.second = "net" => last.op = "loadRejected"
       /\ last.call.second = "200" => last.op = "loadResolved"

\* A call that got 404 twice: one POST, two GETs, and it threw.
C6_Witness ==
  /\ last.op = "loadRejected"
  /\ last.call.first = "404"
  /\ last.call.second = "404"
  /\ last.call.posts = 1
  /\ last.call.gets = 2

\* C7: a call whose first response is a non-success status other than 404
\* issues no profile creation and no retry and fails with the plan-unavailable
\* error; and whatever the first response, a call issues at most two plan GETs
\* and at most one profile POST.
C7_NoRecoveryOnOtherStatus ==
  /\ \A l \in loads : l.gets <= 2 /\ l.posts <= 1
  /\ Finished => (last.call.gets <= 2 /\ last.call.posts <= 1)
  /\ (Finished /\ last.call.first \in Statuses \ {"200", "404"}) =>
       /\ last.call.posts = 0
       /\ last.call.gets = 1
       /\ last.op = "loadRejected"
       /\ last.call.err = ErrPlan

\* A call whose first GET was answered 500 and which threw at once.
C7_Witness ==
  /\ last.op = "loadRejected"
  /\ last.call.first = "500"
  /\ last.call.gets = 1
  /\ tasks = DEMO_TASKS

(***************************************************************************)
(* The completion percentage.                                              *)
(***************************************************************************)
\* round(100 * completed / total), a half rounding up; 0 for no task.
ExactPercentage(ts) ==
  IF Len(ts) = 0 THEN 0 ELSE (200 * Done(ts) + Len(ts)) \div (2 * Len(ts))

\* C8: the displayed percentage is 0 for an empty collection and otherwise
\* round(100 * completed_count / total_count), a half rounding up, hence an
\* integer in 0..100.
C8_PercentageIsRounded ==
  /\ completionPercentage(tasks) = ExactPercentage(tasks)
  /\ completionPercentage(tasks) \in 0..100

(***************************************************************************)
(* Properties of the check-in.                                             *)
(***************************************************************************)
\* C9 as stated: when a submission finishes, a success response leaves the
\* success message set and the error message unset, and a failure response
\* leaves the error message set and the success message unset.
C9_ExactlyOneMessage ==
  /\ last.op = "submitResolved" => (saveMessage # Null /\ error = Null)
  /\ last.op = "submitRejected" => (error # Null /\ saveMessage = Null)

\* C9, amended: when a submission finishes, a success response leaves the
\* success message set, and the error message unset unless a task toggle or a
\* plan load failed while the submission was in flight (the error message is
\* then at most that failure's); a failure response leaves the error message
\* set to the submission's error and the success message unset.
C9_MessagesAfterSubmission ==
  /\ last.op = "submitResolved" =>
       /\ saveMessage = MsgSaved
       /\ ~last.call.dirty => error = Null
       /\ error \in {Null, ErrToggle, ErrDemo}
  /\ last.op = "submitRejected" =>
       /\ error = SubmitErrorMessage(last.call.pc)
       /\ error # Null
       /\ saveMessage = Null

\* A submission that succeeded after a toggle had failed while it was in flight.
C9_Witness ==
  /\ last.op = "submitResolved"
  /\ last.call.dirty
  /\ saveMessage = MsgSaved
  /\ error = ErrToggle

Calls(ss) == {s.n : s \in ss}

Clicked == nSubmits' = nSubmits + 1

\* C10 as stated: every submission clears the previous result message and then
\* issues exactly one POST .../checkin carrying the joy score and notes held at
\* that moment, and success is reported only after that POST succeeded.
C10_EverySubmissionPosts ==
  [][Clicked =>
       /\ error' = Null
       /\ saveMessage' = Null
       /\ \E s \in submits' :
            /\ Calls(submits') = Calls(submits) \cup {s.n}
            /\ s.n \notin Calls(submits)
            /\ s.posts = 1
            /\ s.child_id = childId
            /\ s.joy_score = joyScore
            /\ s.parent_notes = parentNotes]_vars

\* C10, amended: every submission clears the previous result message.  When no
\* demo task (id >= 1000) is in the collection it then issues exactly one POST
\* /daily-plan/{childId}/checkin whose body carries the joy score and notes held
\* at the moment of submission, and success is reported only after that POST
\* succeeded; no step but a submission issues a check-in request (no retry).
\* When a demo task is shown it issues no request and reports the local demo
\* message at once.
C10_SubmissionPostsOnceUnlessDemo ==
  [][/\ Clicked =>
          /\ error' = Null
          /\ IF DemoShown(tasks)
             THEN /\ saveMessage' = MsgDemo
                  /\ submits' = submits
             ELSE /\ saveMessage' = Null
                  /\ \E s \in submits' :
                       /\ Calls(submits') = Calls(submits) \cup {s.n}
                       /\ s.n \notin Calls(submits)
                       /\ s.posts = 1
                       /\ s.child_id = childId
                       /\ s.joy_score = joyScore
                       /\ s.parent_notes = parentNotes
     /\ ~Clicked => Calls(submits') \subseteq Calls(submits)
     /\ (saveMessage' = MsgSaved /\ saveMessage # MsgSaved) =>
          /\ last'.op = "submitResolved"
          /\ last'.call \in submits
          /\ last'.call.n \notin Calls(submits')
          /\ last'.call.posts = 1]_vars

\* A second submission, made with joy score 4 and the note "great day", that
\* succeeded after the slider had been moved back while it was in flight.
C10_Witness ==
  /\ last.op = "submitResolved"
  /\ last.call.n = 2
  /\ last.call.joy_score = 4
  /\ last.call.parent_notes = "great day"
  /\ joyScore = InitialJoy
  /\ saveMessage = MsgSaved

(***************************************************************************)
(* Late responses.                                                         *)
(***************************************************************************)
LoadCalls(ls) == {l.n : l \in ls}

ToggleCalls(rs) == {r.n : r \in rs}

Display == << tasks, error, saveMessage, loading, saving >>

\* C11: a response that arrives after the childId has changed, to a plan fetch,
\* a task-completion call or a check-in submission begun for the earlier
\* childId, is discarded: the step that resumes its caller changes neither the
\* task collection, the error message, the success message nor the loading and
\* saving flags; in particular the plan of a previous childId never replaces
\* the plan loaded for the current one.
C11_LateResponsesDiscarded ==
  [][/\ \A l \in loads :
          (l.n \notin LoadCalls(loads') /\ l.childId # childId) => UNCHANGED Display
     /\ \A r \in toggles :
          (r.n \notin ToggleCalls(toggles') /\ ~HasId(server[childId], r.taskId))
            => UNCHANGED Display
     /\ \A s \in submits :
          (s.n \notin Calls(submits') /\ s.child_id # childId) => UNCHANGED Display]_vars

(***************************************************************************)
(* Toggles made one after another.                                         *)
(***************************************************************************)
\* C12: when toggles are performed strictly one after another, a failed toggle
\* reverts the collection to the state produced by the last confirmed toggle,
\* keeps every earlier confirmed toggle (the collection is the server's plan)
\* and sets the error message; for a plan of 5 tasks with 2 completed the
\* percentage is 40, then 60 after a confirmed third completion, and stays 60
\* after a failed fourth.
C12_SequentialRollbackKeepsConfirmed ==
  /\ last.op = "toggleRolledBack" =>
       /\ tasks = last.call.previous
       /\ tasks = server[childId]
       /\ error = ErrToggle
       /\ completionPercentage(last.call.previous) = 60 => completionPercentage(tasks) = 60
  /\ last.op = "toggleConfirmed" =>
       /\ tasks = server[childId]
       /\ (Done(last.call.previous) = 2 /\ last.call.completed)
            => completionPercentage(tasks) = 60
  /\ last.op = "loadResolved" => completionPercentage(tasks) = 40

\* The fourth completion failed after the third had been confirmed: 60 still.
C12_Witness ==
  /\ last.op = "toggleRolledBack"
  /\ last.call.n = 2
  /\ last.call.completed
  /\ completionPercentage(tasks) = 60
  /\ error = ErrToggle
  /\ \E id \in DOMAIN recent :
       /\ recent[id].n = 1
       /\ recent[id].outcome = "ok"
       /\ Entry(tasks, id).completed
       /\ ~Entry(DayPlans[1], id).completed

(***************************************************************************)
(* One submission at a time.                                               *)
(***************************************************************************)
\* C13: at most one check-in submission is outstanding at any time: saving is
\* true exactly from the start of a submission until its response, success or
\* failure, has been handled, and the button cannot start a second submission
\* while saving is true.
C13_OneSubmissionOutstanding ==
  /\ Cardinality(submits) <= 1
  /\ saving <=> submits # {}
  /\ saving => ~ENABLED onSubmit

\* The second submission is outstanding, the first one handled.
C13_Witness ==
  /\ saving
  /\ nSubmits = 2
  /\ Cardinality(submits) = 1
  /\ \A s \in submits : s.n = 2
  /\ last.op = "submit"

(***************************************************************************)
(* The optimistic update.                                                  *)
(***************************************************************************)
Toggled == nToggles' = nToggles + 1

\* C14: in the state reached by a user toggle, before any response to it, the
\* toggled task's completion flag equals the requested value, every other
\* field of that task and every other task are unchanged, and the length and
\* order of the collection are unchanged.
C14_OptimisticUpdateFrame ==
  [][Toggled =>
       LET call == last'.call
       IN  /\ HasId(tasks, call.taskId)
           /\ Len(tasks') = Len(tasks)
           /\ Ids(tasks') = Ids(tasks)
           /\ \A i \in 1..Len(tasks) :
                tasks'[i] = IF tasks[i].id = call.taskId
                            THEN [tasks[i] EXCEPT !.completed = call.completed]
                            ELSE tasks[i]]_vars

\* A completed task has just been unchecked and its request is in flight: the
\* entry shows the requested flag and still carries its completion stamp.
C14_Witness ==
  /\ last.op = "toggle"
  /\ last.call \in toggles
  /\ ~last.call.completed
  /\ ~Entry(tasks, last.call.taskId).completed
  /\ Entry(tasks, last.call.taskId).completion_timestamp = "t0"
  /\ Entry(last.call.previous, last.call.taskId).completed

(***************************************************************************)
(* completeTask does not retry.                                            *)
(***************************************************************************)
\* C15: a toggle that is sent to the server issues exactly one POST
\* /tasks/complete_task; when that request is answered with a non-success
\* status or fails in transport, the toggle fails, the component rolls back
\* and sets the error message, and no further complete_task request is issued
\* for that toggle: only a click on a checkbox issues one.
C15_OneRequestPerToggle ==
  [][/\ \A r \in toggles' : r.posts = 1
     /\ ToggleCalls(toggles') \subseteq
          (ToggleCalls(toggles) \cup (IF Toggled THEN {nToggles'} ELSE {}))
     /\ \A r \in toggles :
          (r.pc = "await" /\ r.n \notin ToggleCalls(toggles')) =>
            /\ last'.op = "toggleRolledBack"
            /\ last'.call.n = r.n
            /\ last'.call.pc \in RequestFailures
            /\ last'.call.posts = 1
            /\ tasks' = r.previous
            /\ error' = ErrToggle]_vars

\* A toggle answered 500: one request was sent, it was rolled back, and nothing
\* of it is in flight.
C15_Witness ==
  /\ last.op = "toggleRolledBack"
  /\ last.call.pc = "500"
  /\ last.call.posts = 1
  /\ last.call.n \notin ToggleCalls(toggles)
  /\ error = ErrToggle

(***************************************************************************)
(* The order of the 404 recovery.                                          *)
(***************************************************************************)
\* C16: in the 404 recovery of fetchDailyPlan the retry GET is issued only
\* after the profile-creation request has completed, and it is issued whatever
\* HTTP status that request returned; when the profile-creation request fails
\* in transport, no retry GET is issued and the fetch fails.
C16_RetryAfterProfileCompletes ==
  /\ \A l \in loads :
       /\ l.pc = "post" =>
            /\ l.gets = 1
            /\ l.profile = "none"
            /\ \A st \in Statuses : ENABLED ProfileResponse(l, st)
       /\ l.gets = 2 => (l.profile = "answered" /\ l.first = "404")
  /\ Finished =>
       /\ last.call.gets = 2 => last.call.profile = "answered"
       /\ last.call.profile = "net" =>
            /\ last.op = "loadRejected"
            /\ last.call.gets = 1
            /\ last.call.second = "none"

\* A fetch that got 404, had its profile creation answered, retried and got
\* the plan.
C16_Witness ==
  /\ last.op = "loadResolved"
  /\ last.call.first = "404"
  /\ last.call.profile = "answered"
  /\ last.call.second = "200"
  /\ last.call.gets = 2
  /\ tasks = server[last.call.childId]

(***************************************************************************)
(* Demo mode.                                                              *)
(***************************************************************************)
\* C17: when the plan fetch fails, the collection becomes the five demo tasks
\* (ids 1001..1005) and an error message is shown; toggling a task whose id is
\* >= 1000 only flips its local completion flag, issues no complete_task
\* request and leaves no call that could roll it back; and a check-in submitted
\* while a task with id >= 1000 is in the collection reports success without
\* issuing the check-in POST.
C17_DemoModeIsLocal ==
  [][/\ \A l \in loads :
          (l.n \notin LoadCalls(loads') /\ l.pc # "resolved") =>
            /\ tasks' = DEMO_TASKS
            /\ Ids(tasks') = << 1001, 1002, 1003, 1004, 1005 >>
            /\ error' = ErrDemo
     /\ (Toggled /\ last'.call.taskId >= DemoIdFloor) =>
          /\ toggles' = toggles
          /\ last'.call.posts = 0
          /\ Len(tasks') = Len(tasks)
          /\ \A i \in 1..Len(tasks) :
               tasks'[i] = IF tasks[i].id = last'.call.taskId
                           THEN [tasks[i] EXCEPT !.completed = ~tasks[i].completed]
                           ELSE tasks[i]
          /\ UNCHANGED << error, saveMessage, loading, saving, server, loads, submits >>
     /\ \A r \in toggles' : r.taskId < DemoIdFloor
     /\ (Clicked /\ \E i \in 1..Len(tasks) : tasks[i].id >= DemoIdFloor) =>
          /\ submits' = submits
          /\ saveMessage' = MsgDemo
          /\ error' = Null
          /\ ~saving'
          /\ UNCHANGED << tasks, server >>]_vars

\* The plan fetch failed, a demo task was flipped, and the check-in was then
\* acknowledged locally: nothing is in flight.
C17_Witness ==
  /\ last.op = "submitDemo"
  /\ saveMessage = MsgDemo
  /\ Ids(tasks) = Ids(DEMO_TASKS)
  /\ tasks # DEMO_TASKS
  /\ nToggles >= 1
  /\ toggles = {}
  /\ submits = {}
  /\ loads = {}

(***************************************************************************)
(* The identity of the collection.                                         *)
(***************************************************************************)
\* C18: for a fixed childId, once the plan has been loaded, every sequence of
\* toggles, confirmations and rollbacks, in any interleaving, leaves the
\* sequence of task ids of the collection unchanged: no task is added, removed,
\* duplicated or reordered (the server answers a toggle with the Task of the
\* same id).
C18_TaskIdsStable ==
  [][loads = {} =>
       /\ Ids(tasks') = Ids(tasks)
       /\ Ids(tasks) \in {Ids(server[childId]), Ids(DEMO_TASKS)}
       /\ \A r \in toggles : r.pc = "resolved" => r.updated.id = r.taskId]_vars

\* Two overlapping toggles on the loaded plan, one rolled back and then one
\* confirmed: the collection has changed and its ids have not.
C18_Witness ==
  /\ loads = {}
  /\ toggles = {}
  /\ nToggles = 2
  /\ last.op = "toggleConfirmed"
  /\ last.call.previous # server[childId]
  /\ \E id \in DOMAIN recent : recent[id].outcome = "failed"
  /\ Ids(tasks) = Ids(server[childId])
  /\ tasks # InitialPlans[childId]

(***************************************************************************)
(* The flags come down.                                                    *)
(***************************************************************************)
\* C19: when every network request eventually resolves or rejects, the loading
\* flag eventually becomes false after each plan load and the saving flag
\* eventually becomes false after each check-in submission, whatever the
\* outcome: success, a non-success status, a transport failure, or the
\* demo-mode early return (which leaves saving false at once).
C19_FlagsEventuallyFalse ==
  /\ loading ~> ~loading
  /\ saving ~> ~saving
  /\ (loads # {}) ~> (loads = {} /\ ~loading)
  /\ (submits # {}) ~> (submits = {} /\ ~saving)
  /\ [][(Clicked /\ DemoShown(tasks)) => ~saving']_vars

\* A second submission has failed in transport and both flags are down.
C19_Witness ==
  /\ last.op = "submitRejected"
  /\ last.call.pc = "net"
  /\ last.call.n = 2
  /\ ~saving
  /\ ~loading
  /\ loads = {}
  /\ submits = {}

====
